---- MODULE Spec2Model ----
(***************************************************************************)
(* A model of the file crate: the FileOptions bit set and its chained      *)
(* setters (src/src/defs.rs 5-74), FileOptions::open (76-113) and the File *)
(* handle operations (130-229), over a model of the host file system the   *)
(* handle operations delegate to (std::fs on a POSIX host).                *)
(***************************************************************************)
EXTENDS Integers, Sequences, FiniteSets, TLC

\* ------------------------------------------------------------------ bounds
\* The File values a run creates, and the longest file it writes.
MaxHandles == 2
MaxLen == 2

\* ------------------------------------------------- FileOptions (bitflags)
FileOptions_Read == 1
FileOptions_Write == 2
FileOptions_Create == 4
FileOptions_ExclusiveCreate == 8
FileOptions_Truncate == 16
FileOptions_Append == 32
FileOptions_Uninitialized == 128

\* The six intent flags, in declaration order.
IntentFlags ==
    << FileOptions_Read, FileOptions_Write, FileOptions_Create,
       FileOptions_ExclusiveCreate, FileOptions_Truncate, FileOptions_Append >>

RECURSIVE BitAnd(_, _)
BitAnd(a, b) ==
    IF a = 0 \/ b = 0 THEN 0
    ELSE (a % 2) * (b % 2) + 2 * BitAnd(a \div 2, b \div 2)

RECURSIVE BitOr(_, _)
BitOr(a, b) ==
    IF a = 0 THEN b
    ELSE IF b = 0 THEN a
    ELSE (IF (a % 2) + (b % 2) > 0 THEN 1 ELSE 0) + 2 * BitOr(a \div 2, b \div 2)

\* bitflags: self.contains(other), self - other, self | other on the u32 bits
\* (none of the three can carry out of the bits of its operands).
contains(self, other) == BitAnd(self, other) = other

difference(self, other) == self - BitAnd(self, other)

union(self, other) == BitOr(self, other)

\* Every value of the type: any combination of the seven declared flags.
AllFileOptions ==
    { x \in 0..255 : BitAnd(x, 64) = 0 }

is_initialized(self) == ~contains(self, FileOptions_Uninitialized)

FileOptions_read(self, set) ==
    IF set
    THEN union(difference(self, FileOptions_Uninitialized), FileOptions_Read)
    ELSE self

FileOptions_write(self, set) ==
    IF set
    THEN union(difference(self, FileOptions_Uninitialized), FileOptions_Write)
    ELSE self

FileOptions_create(self, set) ==
    IF set
    THEN union(difference(self, FileOptions_Uninitialized), FileOptions_Create)
    ELSE self

FileOptions_exclusive_create(self, set) ==
    IF set
    THEN union(difference(self, FileOptions_Uninitialized), FileOptions_ExclusiveCreate)
    ELSE self

\* Mutant of FileOptions_truncate: the sentinel is not cleared.
FileOptions_truncate_keeps_sentinel(self, set) ==
    IF set THEN union(self, FileOptions_Truncate) ELSE self

FileOptions_truncate(self, set) ==
    IF set
    THEN union(difference(self, FileOptions_Uninitialized), FileOptions_Truncate)
    ELSE self

FileOptions_append(self, set) ==
    IF set
    THEN union(difference(self, FileOptions_Uninitialized), FileOptions_Append)
    ELSE self

\* Mutant of FileOptions_new: the empty set, with no sentinel.
FileOptions_new_empty ==
    difference(FileOptions_Uninitialized, FileOptions_Uninitialized)

FileOptions_new == FileOptions_Uninitialized

\* The setter numbered i (the order of IntentFlags), applied.
Setter(i, self, set) ==
    CASE i = 1 -> FileOptions_read(self, set)
      [] i = 2 -> FileOptions_write(self, set)
      [] i = 3 -> FileOptions_create(self, set)
      [] i = 4 -> FileOptions_exclusive_create(self, set)
      [] i = 5 -> FileOptions_truncate(self, set)
      [] i = 6 -> FileOptions_append(self, set)

\* ------------------------------------------------------------ text and bytes
\* The length of the UTF-8 sequence a lead byte begins (0: no lead byte).
Utf8Width(b) ==
    IF b < 128 THEN 1
    ELSE IF b >= 194 /\ b <= 223 THEN 2
    ELSE IF b >= 224 /\ b <= 239 THEN 3
    ELSE IF b >= 240 /\ b <= 244 THEN 4
    ELSE 0

IsContinuation(b) == b >= 128 /\ b <= 191

SecondByteOk(b0, b1) ==
    CASE b0 = 224 -> b1 >= 160 /\ b1 <= 191
      [] b0 = 237 -> b1 >= 128 /\ b1 <= 159
      [] b0 = 240 -> b1 >= 144 /\ b1 <= 191
      [] b0 = 244 -> b1 >= 128 /\ b1 <= 143
      [] OTHER -> IsContinuation(b1)

\* String::from_utf8 / read_to_string accept exactly the well-formed sequences.
RECURSIVE Utf8Valid(_)
Utf8Valid(s) ==
    IF s = <<>> THEN TRUE
    ELSE LET w == Utf8Width(s[1]) IN
         /\ w > 0
         /\ Len(s) >= w
         /\ (w >= 2 => SecondByteOk(s[1], s[2]))
         /\ (w >= 3 => IsContinuation(s[3]))
         /\ (w >= 4 => IsContinuation(s[4]))
         /\ Utf8Valid(SubSeq(s, w + 1, Len(s)))

\* The text (a sequence of code points) of a well-formed byte sequence.
RECURSIVE Utf8Decode(_)
Utf8Decode(s) ==
    IF s = <<>> THEN <<>>
    ELSE LET w == Utf8Width(s[1])
             c == CASE w = 1 -> s[1]
                    [] w = 2 -> (s[1] - 192) * 64 + (s[2] - 128)
                    [] w = 3 -> (s[1] - 224) * 4096 + (s[2] - 128) * 64 + (s[3] - 128)
                    [] w = 4 -> (s[1] - 240) * 262144 + (s[2] - 128) * 4096
                                + (s[3] - 128) * 64 + (s[4] - 128)
         IN  <<c>> \o Utf8Decode(SubSeq(s, w + 1, Len(s)))

EncodeChar(c) ==
    IF c < 128 THEN <<c>>
    ELSE IF c < 2048 THEN << 192 + (c \div 64), 128 + (c % 64) >>
    ELSE IF c < 65536
         THEN << 224 + (c \div 4096), 128 + ((c \div 64) % 64), 128 + (c % 64) >>
    ELSE << 240 + (c \div 262144), 128 + ((c \div 4096) % 64),
            128 + ((c \div 64) % 64), 128 + (c % 64) >>

\* data.to_string().as_bytes() / String::into_bytes: the bytes of a text.
RECURSIVE Utf8Encode(_)
Utf8Encode(t) ==
    IF t = <<>> THEN <<>> ELSE EncodeChar(t[1]) \o Utf8Encode(Tail(t))

\* ------------------------------------------------------------------- state
VARIABLES
    opts,      \* the FileOptions value the builder chain currently holds
    built,     \* history: the setter calls made on opts since FileOptions::new()
    dir,       \* storage: file name -> inode number (0: no such file)
    inodes,    \* storage: inode number -> the file's bytes
    handles    \* every File created so far, by handle number

vars == << opts, built, dir, inodes, handles >>

\* Storage and handles as one value, for the methods to map to the next one.
St == [dir |-> dir, inodes |-> inodes, handles |-> handles]

\* The file names callers open: the one of tests::open (src/src/lib.rs 11).
Paths == {"file.txt"}

\* A File whose value has been moved into close or delete (or dropped).
Consumed ==
    [file_name |-> "", file_options |-> 0, ino |-> 0, pos |-> 0, live |-> FALSE]

Live(s, h) == h \in 1..Len(s.handles) /\ s.handles[h].live

\* The contents of the file handle h is open on.
Content(s, h) == s.inodes[s.handles[h].ino]

\* The access mode std::fs::OpenOptions derives from read/write/append.
Readable(o) == contains(o, FileOptions_Read)

Appending(o) == contains(o, FileOptions_Append)

Writable(o) == contains(o, FileOptions_Write) \/ Appending(o)

\* Dropping a File closes its descriptor: the bytes of a file with no name and
\* no open handle left are released.
Reclaim(s) ==
    [s EXCEPT !.inodes =
        [i \in 1..Len(s.inodes) |->
            IF \/ \E p \in Paths : s.dir[p] = i
               \/ \E h \in 1..Len(s.handles) :
                     s.handles[h].live /\ s.handles[h].ino = i
            THEN s.inodes[i] ELSE <<>>]]

\* ------------------------------------------------------ FileOptions::open
\* std::fs::OpenOptions::open on a POSIX host, with the builder's flags read,
\* write, create, create_new, truncate, append: the result of the one native
\* open call, [err, dir, inodes, ino].
OpenOptions_open(s, p, rd, wr, cr, cn, tr, ap) ==
    LET badAccess == ~rd /\ ~wr /\ ~ap
        badCreation == IF ap THEN tr /\ ~cn
                       ELSE IF wr THEN FALSE
                       ELSE tr \/ cr \/ cn
        fail(e) == [err |-> e, dir |-> s.dir, inodes |-> s.inodes, ino |-> 0]
    IN  IF badAccess \/ badCreation THEN fail("EINVAL")
        ELSE IF s.dir[p] # 0
        THEN IF cn THEN fail("EEXIST")
             ELSE [err |-> "", dir |-> s.dir,
                   inodes |-> IF tr THEN [s.inodes EXCEPT ![s.dir[p]] = <<>>]
                              ELSE s.inodes,
                   ino |-> s.dir[p]]
        ELSE IF cr \/ cn
        THEN [err |-> "", dir |-> [s.dir EXCEPT ![p] = Len(s.inodes) + 1],
              inodes |-> Append(s.inodes, <<>>), ino |-> Len(s.inodes) + 1]
        ELSE fail("ENOENT")

\* Mutants of NativeOpen: Truncate not passed on; Create always passed;
\* ExclusiveCreate passed as create instead of create_new.
NativeOpen_truncate_dropped(s, o, p) ==
    OpenOptions_open(s, p,
        contains(o, FileOptions_Read), contains(o, FileOptions_Write),
        contains(o, FileOptions_Create), contains(o, FileOptions_ExclusiveCreate),
        FALSE, contains(o, FileOptions_Append))

NativeOpen_always_create(s, o, p) ==
    OpenOptions_open(s, p,
        contains(o, FileOptions_Read), contains(o, FileOptions_Write),
        TRUE, contains(o, FileOptions_ExclusiveCreate),
        contains(o, FileOptions_Truncate), contains(o, FileOptions_Append))

NativeOpen_exclusive_as_create(s, o, p) ==
    OpenOptions_open(s, p,
        contains(o, FileOptions_Read), contains(o, FileOptions_Write),
        contains(o, FileOptions_Create) \/ contains(o, FileOptions_ExclusiveCreate),
        FALSE,
        contains(o, FileOptions_Truncate), contains(o, FileOptions_Append))

\* The OpenOptions chain of FileOptions::open: each flag of o to its setter.
NativeOpen(s, o, p) ==
    OpenOptions_open(s, p,
        contains(o, FileOptions_Read), contains(o, FileOptions_Write),
        contains(o, FileOptions_Create), contains(o, FileOptions_ExclusiveCreate),
        contains(o, FileOptions_Truncate), contains(o, FileOptions_Append))

\* Mutant of FileOptions_open: the Uninitialized check left out.
FileOptions_open_unchecked(s, self, file_name) ==
    LET r == NativeOpen(s, self, file_name) IN
    IF r.err = ""
    THEN [err |-> "", h |-> Len(s.handles) + 1,
          s |-> [dir |-> r.dir, inodes |-> r.inodes,
                 handles |-> Append(s.handles,
                     [file_name |-> file_name, file_options |-> self,
                      ino |-> r.ino, pos |-> 0, live |-> TRUE])]]
    ELSE [err |-> r.err, h |-> 0, s |-> s]

\* FileOptions::open(self, file_name): [err, h, s].
FileOptions_open(s, self, file_name) ==
    IF contains(self, FileOptions_Uninitialized)
    THEN [err |-> "Uninitialized", h |-> 0, s |-> s]
    ELSE LET r == NativeOpen(s, self, file_name) IN
         IF r.err = ""
         THEN [err |-> "", h |-> Len(s.handles) + 1,
               s |-> [dir |-> r.dir, inodes |-> r.inodes,
                      handles |-> Append(s.handles,
                          [file_name |-> file_name, file_options |-> self,
                           ino |-> r.ino, pos |-> 0, live |-> TRUE])]]
         ELSE [err |-> r.err, h |-> 0, s |-> s]

\* ------------------------------------------------------------ File methods
Max(a, b) == IF a >= b THEN a ELSE b

Zeros(n) == [i \in 1..n |-> 0]

\* The bytes of content c from offset at on (none at or past the end).
From(c, at) == IF at >= Len(c) THEN <<>> ELSE SubSeq(c, at + 1, Len(c))

\* Content c after data is written at offset at: a gap past the end reads as
\* zeros, bytes under the data are replaced, bytes after it are kept.
Splice(c, at, data) ==
    (IF at <= Len(c) THEN SubSeq(c, 1, at) ELSE c \o Zeros(at - Len(c)))
    \o data \o From(c, at + Len(data))

\* Mutant of File_read: the bytes read are returned as they are, undecoded.
File_read_undecoded(s, h) ==
    LET f == s.handles[h]
        data == From(s.inodes[f.ino], f.pos)
        moved == [s EXCEPT !.handles[h].pos = Max(f.pos, Len(s.inodes[f.ino]))]
    IN  IF ~contains(f.file_options, FileOptions_Read)
        THEN [err |-> "EBADF", out |-> <<>>, s |-> s]
        ELSE IF Utf8Valid(data)
        THEN [err |-> "", out |-> data, s |-> moved]
        ELSE [err |-> "InvalidData", out |-> <<>>, s |-> moved]

\* File::read: read_to_string from the cursor to the end of the file.
\* [err, out, s]; the cursor ends at the end of the file either way.
File_read(s, h) ==
    LET f == s.handles[h]
        data == From(Content(s, h), f.pos)
        moved == [s EXCEPT !.handles[h].pos = Max(f.pos, Len(Content(s, h)))]
    IN  IF ~Readable(f.file_options)
        THEN [err |-> "EBADF", out |-> <<>>, s |-> s]
        ELSE IF Utf8Valid(data)
        THEN [err |-> "", out |-> Utf8Decode(data), s |-> moved]
        ELSE [err |-> "InvalidData", out |-> <<>>, s |-> moved]

\* File::read_u8: the bytes of the text File::read returns.
File_read_u8(s, h) ==
    LET r == File_read(s, h) IN
    IF r.err = "" THEN [r EXCEPT !.out = Utf8Encode(r.out)] ELSE r

\* The offset a write on h lands at: the end of the file in append mode.
WriteOffset(s, h) ==
    IF Appending(s.handles[h].file_options)
    THEN Len(Content(s, h))
    ELSE s.handles[h].pos

\* File::write: write_all of the text's bytes. [err, s].
\* write_all of no bytes makes no native call and succeeds.
File_write(s, h, data) ==
    LET f == s.handles[h]
        bytes == Utf8Encode(data)
        at == WriteOffset(s, h)
    IN  IF bytes = <<>> THEN [err |-> "", s |-> s]
        ELSE IF ~Writable(f.file_options) THEN [err |-> "EBADF", s |-> s]
        ELSE [err |-> "",
              s |-> [s EXCEPT !.inodes[f.ino] = Splice(@, at, bytes),
                              !.handles[h].pos = at + Len(bytes)]]

\* Mutant of File_write_u8: bytes that are no text are dropped without an
\* error.
File_write_u8_swallows(s, h, data) ==
    IF Utf8Valid(data)
    THEN File_write(s, h, Utf8Decode(data))
    ELSE [err |-> "", s |-> s]

\* File::write_u8: String::from_utf8 first, then File::write.
File_write_u8(s, h, data) ==
    IF Utf8Valid(data)
    THEN File_write(s, h, Utf8Decode(data))
    ELSE [err |-> "InvalidData", s |-> s]

\* File::flush: std's File::flush does nothing and succeeds.
File_flush(s, h) == [err |-> "", s |-> s]

\* Mutant of File_seek: the offset is returned, the cursor is not moved.
File_seek_unmoved(s, h, pos) == [err |-> "", n |-> pos, s |-> s]

\* File::seek: SeekFrom::Start(pos). [err, n, s].
File_seek(s, h, pos) ==
    [err |-> "", n |-> pos, s |-> [s EXCEPT !.handles[h].pos = pos]]

\* Mutant of File_close: close takes the File by reference and leaves it
\* usable.
File_close_by_reference(s, h) == [err |-> "", s |-> s]

\* File::close(self): sync_all, and self is dropped. [err, s].
File_close(s, h) ==
    [err |-> "", s |-> Reclaim([s EXCEPT !.handles[h] = Consumed])]

\* File::delete(self): remove_file(self.file_name), and self is dropped.
\* [err, s].
File_delete(s, h) ==
    LET p == s.handles[h].file_name IN
    IF s.dir[p] # 0
    THEN [err |-> "",
          s |-> Reclaim([s EXCEPT !.dir[p] = 0, !.handles[h] = Consumed])]
    ELSE [err |-> "ENOENT", s |-> Reclaim([s EXCEPT !.handles[h] = Consumed])]

\* tests::open: open, look at is_ok(), and let the File go out of scope.
tests_open(s, self, file_name) ==
    LET r == FileOptions_open(s, self, file_name) IN
    IF r.err = "" THEN [r EXCEPT !.s = File_close(r.s, r.h).s] ELSE r

\* ------------------------------------------------------------------ inputs
CreateWrite == union(FileOptions_Create, FileOptions_Write)

CreateWriteTruncate == union(CreateWrite, FileOptions_Truncate)

ReadWrite == union(FileOptions_Read, FileOptions_Write)

ReadAppend == union(FileOptions_Read, FileOptions_Append)

\* The option sets a caller opens files with: none set, read only, read and
\* write in place, write only to a new or emptied file, read and append.
OpenInputs ==
    { FileOptions_new,
      FileOptions_Read,
      ReadWrite,
      CreateWriteTruncate,
      ReadAppend }

\* The texts callers write: none, "A", U+00E9 (two bytes).
Texts == { <<>>, <<65>>, <<233>> }

\* The byte vectors callers write: the three texts' bytes, a lead byte with
\* nothing after it, and a continuation byte with no lead byte before it.
ByteSeqs == { <<>>, <<65>>, <<195, 169>>, <<195>>, <<65, 169>> }

\* What a file holds before the first call: nothing, "A", "AA", or a byte
\* that is no text.
InitContents == { <<>>, <<65>>, <<65, 65>>, <<169>> }

\* Storage before the first call: the file is missing, or holds one of
\* InitContents.
InitStorage ==
    \/ /\ dir = [p \in Paths |-> 0]
       /\ inodes = <<>>
    \/ \E c \in InitContents :
       /\ dir = [p \in Paths |-> 1]
       /\ inodes = << c >>

Init ==
    /\ opts = FileOptions_new
    /\ built = [called |-> FALSE, anySet |-> FALSE]
    /\ InitStorage
    /\ handles = <<>>

\* ----------------------------------------------------------------- actions
\* The variables take the values of s, whose files stay within MaxLen bytes.
Becomes(s) ==
    /\ \A i \in 1..Len(s.inodes) : Len(s.inodes[i]) <= MaxLen
    /\ dir' = s.dir
    /\ inodes' = s.inodes
    /\ handles' = s.handles

Open(o, p) ==
    /\ Len(handles) < MaxHandles
    /\ Becomes(FileOptions_open(St, o, p).s)
    /\ UNCHANGED << opts, built >>

Read(h) ==
    /\ Live(St, h)
    /\ Becomes(File_read(St, h).s)
    /\ UNCHANGED << opts, built >>

ReadU8(h) ==
    /\ Live(St, h)
    /\ Becomes(File_read_u8(St, h).s)
    /\ UNCHANGED << opts, built >>

Write(h, data) ==
    /\ Live(St, h)
    /\ Becomes(File_write(St, h, data).s)
    /\ UNCHANGED << opts, built >>

WriteU8(h, data) ==
    /\ Live(St, h)
    /\ Becomes(File_write_u8(St, h, data).s)
    /\ UNCHANGED << opts, built >>

Flush(h) ==
    /\ Live(St, h)
    /\ Becomes(File_flush(St, h).s)
    /\ UNCHANGED << opts, built >>

Seek(h, pos) ==
    /\ Live(St, h)
    /\ Becomes(File_seek(St, h, pos).s)
    /\ UNCHANGED << opts, built >>

Close(h) ==
    /\ Live(St, h)
    /\ Becomes(File_close(St, h).s)
    /\ UNCHANGED << opts, built >>

Delete(h) ==
    /\ Live(St, h)
    /\ Becomes(File_delete(St, h).s)
    /\ UNCHANGED << opts, built >>

Next ==
    \/ \E o \in OpenInputs, p \in Paths : Open(o, p)
    \/ \E h \in 1..MaxHandles : Read(h)
    \/ \E h \in 1..MaxHandles : ReadU8(h)
    \/ \E h \in 1..MaxHandles, data \in Texts : Write(h, data)
    \/ \E h \in 1..MaxHandles, data \in ByteSeqs : WriteU8(h, data)
    \/ \E h \in 1..MaxHandles : Flush(h)
    \/ \E h \in 1..MaxHandles, pos \in 0..MaxLen : Seek(h, pos)
    \/ \E h \in 1..MaxHandles : Close(h)
    \/ \E h \in 1..MaxHandles : Delete(h)

Spec == Init /\ [][Next]_vars

\* ------------------------------------------------- the builder, on its own
New ==
    /\ opts' = FileOptions_new
    /\ built' = [called |-> FALSE, anySet |-> FALSE]
    /\ UNCHANGED << dir, inodes, handles >>

Set(i, set) ==
    /\ opts' = Setter(i, opts, set)
    /\ built' = [called |-> TRUE, anySet |-> built.anySet \/ set]
    /\ UNCHANGED << dir, inodes, handles >>

OpenBuilt(p) ==
    /\ Len(handles) < MaxHandles
    /\ Becomes(tests_open(St, opts, p).s)
    /\ UNCHANGED << opts, built >>

NextOptions ==
    \/ New
    \/ \E i \in 1..Len(IntentFlags), set \in BOOLEAN : Set(i, set)
    \/ \E p \in Paths : OpenBuilt(p)

SpecOptions == Init /\ [][NextOptions]_vars

InitAnyOptions ==
    /\ opts \in AllFileOptions
    /\ built = [called |-> FALSE, anySet |-> FALSE]
    /\ InitStorage
    /\ handles = <<>>

SpecAnyOptions == InitAnyOptions /\ [][NextOptions]_vars

\* ------------------------------------------------------------------ claims
NoIntent(o) == \A i \in 1..Len(IntentFlags) : ~contains(o, IntentFlags[i])

\* C1: a FileOptions from FileOptions::new() with no setter call since still
\* has Uninitialized set, and open on it, for every file name, returns the
\* validation error, no File, and storage and handles exactly as they were.
C1_UninitializedOpenRejected ==
    ~built.called =>
        /\ contains(opts, FileOptions_Uninitialized)
        /\ \A p \in Paths :
              LET r == FileOptions_open(St, opts, p) IN
              r.err = "Uninitialized" /\ r.h = 0 /\ r.s = St

\* Reached after an earlier chain opened the file: a fresh FileOptions::new()
\* with an existing, non-empty file to open.
C1_Witness ==
    /\ ~built.called
    /\ Len(handles) > 0
    /\ \E p \in Paths : dir[p] # 0 /\ inodes[dir[p]] # <<>>

\* C2: for every FileOptions value O and each of the six setters S, S(O, true)
\* has Uninitialized clear and S's flag set, and S(O, false) equals O.
C2_SetterSemantics ==
    \A i \in 1..Len(IntentFlags) :
        /\ ~contains(Setter(i, opts, TRUE), FileOptions_Uninitialized)
        /\ contains(Setter(i, opts, TRUE), IntentFlags[i])
        /\ Setter(i, opts, FALSE) = opts

\* A value with Uninitialized and an intent flag both set (no chain from new()
\* produces one), which setters were then applied to with set = false.
C2_Witness ==
    /\ built.called /\ ~built.anySet
    /\ contains(opts, FileOptions_Uninitialized)
    /\ contains(opts, FileOptions_Truncate)

\* C10: for every FileOptions reachable from FileOptions::new() by setter
\* calls, Uninitialized is set exactly when none of the six intent flags is,
\* and open returns the validation error exactly when no setter was called
\* with set = true.
C10_UninitializedIffNoIntent ==
    /\ contains(opts, FileOptions_Uninitialized) <=> NoIntent(opts)
    /\ \A p \in Paths :
          FileOptions_open(St, opts, p).err = "Uninitialized" <=> ~built.anySet

\* Setters were called, with false and with true, and the chain opened a file.
C10_Witness ==
    /\ built.anySet
    /\ contains(opts, FileOptions_Append) /\ contains(opts, FileOptions_Read)
    /\ Len(handles) > 0

\* The texts the round trip is tried with.
RoundTripTexts == Texts \cup { <<65, 233>> }

\* C3: for every text B, open(Create|Write|Truncate), write(B), close, then
\* open(Read) of the same name and read all succeed and the read returns B,
\* whatever the file held before.
C3_RoundTrip ==
    \A p \in Paths, B \in RoundTripTexts :
        LET r1 == FileOptions_open(St, CreateWriteTruncate, p)
            r2 == File_write(r1.s, r1.h, B)
            r3 == File_close(r2.s, r1.h)
            r4 == FileOptions_open(r3.s, FileOptions_Read, p)
            r5 == File_read(r4.s, r4.h)
        IN  /\ r1.err = "" /\ r2.err = "" /\ r3.err = "" /\ r4.err = ""
            /\ r5.err = "" /\ r5.out = B

\* The round trip made by the calls themselves: the first File, opened with
\* Create|Write|Truncate, is consumed, the second, opened with Read, has read
\* to the end of a file that holds the two bytes of U+00E9.
C3_Witness ==
    /\ Len(handles) = 2
    /\ ~handles[1].live
    /\ handles[2].live /\ handles[2].file_options = FileOptions_Read
    /\ Content(St, 2) = <<195, 169>> /\ handles[2].pos = 2
    /\ dir[handles[2].file_name] = handles[2].ino

\* C4: for a name with no file, open(Read) fails with the native error and
\* creates nothing; open(Create|Write) of the same name then returns a File
\* and the file exists.
C4_MissingFile ==
    \A p \in Paths :
        dir[p] = 0 =>
            LET r == FileOptions_open(St, FileOptions_Read, p)
                w == FileOptions_open(r.s, CreateWrite, p)
            IN  /\ r.err = "ENOENT" /\ r.h = 0 /\ r.s = St
                /\ w.err = "" /\ Live(w.s, w.h) /\ w.s.dir[p] # 0

\* The name is missing because a File deleted it, while another File is still
\* open on the file that had the name.
C4_Witness ==
    \E p \in Paths :
        /\ dir[p] = 0
        /\ \E h \in 1..Len(handles) : ~handles[h].live
        /\ \E h \in 1..Len(handles) : handles[h].live /\ Content(St, h) # <<>>

\* C5: for a name whose file exists, open with ExclusiveCreate set, alone or
\* with any other intent flags, fails with the native error, returns no File
\* and leaves storage as it was.
C5_ExclusiveCreateCollision ==
    \A p \in Paths, o \in AllFileOptions :
        (dir[p] # 0 /\ contains(o, FileOptions_ExclusiveCreate)
            /\ ~contains(o, FileOptions_Uninitialized)) =>
            LET r == FileOptions_open(St, o, p) IN
            r.err \in {"EEXIST", "EINVAL"} /\ r.h = 0 /\ r.s = St

\* The chain holds ExclusiveCreate with Write and Truncate, and the file it
\* names exists and is not empty.
C5_Witness ==
    /\ contains(opts, FileOptions_ExclusiveCreate)
    /\ contains(opts, FileOptions_Write)
    /\ contains(opts, FileOptions_Truncate)
    /\ \E p \in Paths : dir[p] # 0 /\ inodes[dir[p]] # <<>>

\* Whether a write on h now starts at offset 0 of an empty file that h can
\* also read.
CleanWrite(s, h) ==
    /\ Readable(s.handles[h].file_options)
    /\ Content(s, h) = <<>>
    /\ WriteOffset(s, h) = 0

\* C6 as stated: on any open handle, after a write of N bytes, seek(0) and a
\* read return exactly the bytes written.
C6_Original ==
    \A h \in 1..Len(handles), data \in Texts :
        Live(St, h) =>
            LET w == File_write(St, h, data)
                k == File_seek(w.s, h, 0)
                r == File_read(k.s, h)
            IN  w.err = "" => (r.err = "" /\ r.out = data)

\* C6, amended: on an open handle that can read, whose file is empty and whose
\* write lands at offset 0, after a write of N bytes, seek(0) returns 0 and a
\* read returns exactly the bytes written.
C6_WriteSeekRead ==
    \A h \in 1..Len(handles), data \in Texts :
        (Live(St, h) /\ CleanWrite(St, h)) =>
            LET w == File_write(St, h, data)
                k == File_seek(w.s, h, 0)
                r == File_read(k.s, h)
            IN  w.err = "" => (k.err = "" /\ k.n = 0 /\ r.err = "" /\ r.out = data)

\* A File opened with Read|Append had read to the end of its file before
\* another open truncated the file: its cursor is past the end, its write
\* lands at offset 0, and the text written comes back.
C6_Witness ==
    \E h \in 1..Len(handles) :
        /\ Live(St, h) /\ CleanWrite(St, h)
        /\ Appending(handles[h].file_options) /\ handles[h].pos > 0
        /\ File_read(File_seek(File_write(St, h, <<233>>).s, h, 0).s, h).out
              = <<233>>

\* C7: for a name whose file exists and holds valid text, open(Read) returns a
\* File with its cursor at offset 0, and the first read on it succeeds and
\* returns the whole text of the file.
C7_OpenAndRead ==
    \A p \in Paths :
        (dir[p] # 0 /\ Utf8Valid(inodes[dir[p]])) =>
            LET o == FileOptions_open(St, FileOptions_Read, p)
                r == File_read(o.s, o.h)
            IN  /\ o.err = "" /\ Live(o.s, o.h) /\ o.s.handles[o.h].pos = 0
                /\ r.err = "" /\ r.out = Utf8Decode(inodes[dir[p]])
                /\ r.s.inodes = inodes

\* The first File, opened with Read, has read to the end of a file of two
\* characters, one of one byte and one of two.
C7_Witness ==
    /\ Len(handles) >= 1
    /\ handles[1].live /\ handles[1].file_options = FileOptions_Read
    /\ Len(Content(St, 1)) = 2 /\ handles[1].pos = 2
    /\ Utf8Valid(Content(St, 1))

\* A step that is a call of a method of handle h.
CallOn(h) ==
    \/ Read(h) \/ ReadU8(h) \/ Flush(h) \/ Close(h) \/ Delete(h)
    \/ \E data \in Texts : Write(h, data)
    \/ \E data \in ByteSeqs : WriteU8(h, data)
    \/ \E pos \in 0..MaxLen : Seek(h, pos)

\* C8: close and delete end a handle: in every state, either call on an
\* open File leaves it consumed, whatever it returns; and in every step, a
\* consumed File stays consumed and the step is not a call of one of its
\* methods.
C8_ConsumedIsTerminal ==
    /\ [](\A h \in 1..Len(handles) :
            Live(St, h) =>
                /\ ~Live(File_close(St, h).s, h)
                /\ ~Live(File_delete(St, h).s, h))
    /\ [][\A h \in 1..Len(handles) :
            ~Live(St, h) => (handles'[h] = Consumed /\ ~CallOn(h))]_vars

\* One File was deleted after its file was already gone (delete returned an
\* error), and a later File is in use.
C8_Witness ==
    /\ Len(handles) = 2
    /\ ~handles[1].live
    /\ handles[2].live /\ handles[2].pos > 0
    /\ \A p \in Paths : dir[p] = 0

\* The byte vectors write_u8 is tried with.
ClaimBytes == ByteSeqs \cup { <<65, 195, 169>>, <<195, 169, 195>> }

\* C9: write_u8(D) returns an error and leaves storage and the cursor as they
\* were when D is not valid UTF-8; otherwise it returns what write of D's text
\* returns, with the same effect, which on a handle that can write is D's own
\* bytes at the offset a write lands at.
C9_WriteU8Validates ==
    \A h \in 1..Len(handles), D \in ClaimBytes :
        Live(St, h) =>
            LET r == File_write_u8(St, h, D) IN
            IF ~Utf8Valid(D)
            THEN r.err # "" /\ r.s = St
            ELSE /\ r = File_write(St, h, Utf8Decode(D))
                 /\ (Writable(handles[h].file_options) /\ D # <<>>) =>
                       /\ r.err = ""
                       /\ Content(r.s, h)
                            = Splice(Content(St, h), WriteOffset(St, h), D)
                       /\ r.s.handles[h].pos = WriteOffset(St, h) + Len(D)

\* A File that can write is past the start of a file holding the bytes of
\* U+00E9, where write_u8 of a lone lead byte is refused.
C9_Witness ==
    \E h \in 1..Len(handles) :
        /\ handles[h].live /\ Writable(handles[h].file_options)
        /\ Content(St, h) = <<195, 169>> /\ handles[h].pos = 1
        /\ File_write_u8(St, h, <<195>>).err = "InvalidData"

====
